---------------------------- MODULE Spec2Model ----------------------------
(***************************************************************************)
(* A model of the path planning module of DBSplan                          *)
(* (src/src/path_planning.py): the distance map, the entry point sampler,  *)
(* the enumeration of all lines, the collision filter and the margin       *)
(* stage, as the Python code computes them.                                *)
(*                                                                         *)
(* Numbers.  The code works on float64.  Every quantity of the model is    *)
(* kept exact in integers:                                                 *)
(*   - a direction is a record [d |-> <<dx,dy,dz>>, s |-> S] that stands   *)
(*     for the vector d / sqrt(S); S = 0 stands for the NaN vector that    *)
(*     0/0 yields;                                                         *)
(*   - a distance of v millimetres is stored as Enc(v) = 9 * v^2 (the 9    *)
(*     absorbs the mean over the three diagonal terms of the affine), an   *)
(*     encoding that is monotone on v >= 0, so that every comparison the   *)
(*     code makes between distances is the comparison of the encodings.    *)
(* The inputs are drawn from sets on which the float64 results are the     *)
(* exact ones (no step of a walk lands on an integer unless it does so     *)
(* exactly in float64 too).                                                *)
(***************************************************************************)
EXTENDS Integers, Sequences, FiniteSets

VARIABLES
    pc,                   \* position of the program
    entry_point_mask,     \* generate_entry_points: the mask loaded from disk
    n_points,             \* generate_entry_points: n_points
    entry_points_down,    \* generate_entry_points: the returned array
    mask,                 \* generate_distance_map: mask
    aff,                  \* the diagonal of the affine (first three terms)
    cutoff,               \* generate_distance_map: cutoff (mm)
    distance_map,         \* the distance map (values stored as Enc)
    entry_points,         \* generate_trajectories: entry_points
    target_points,        \* generate_trajectories: target_points
    all_trajectories,     \* result of calculate_all_lines
    valid_trajectories,   \* result of calculate_valid_lines
    margin_trajectories,  \* result of generate_margin_trajectories
    planning_paths,       \* run_path_planning: per subject, the input files
    settings,             \* run_path_planning: settings["resetModules"][4]
    disk,                 \* per subject, the files the module writes or tests
    loop,                 \* run_path_planning: the run, the position of the
                          \* main loop, skipped_img and the calls made so far
    walk,                 \* one while loop over a trajectory, step by step
    config_data           \* main: the content of config.json

vars == <<pc, entry_point_mask, n_points, entry_points_down, mask, aff, cutoff,
          distance_map, entry_points, target_points, all_trajectories,
          valid_trajectories, margin_trajectories, planning_paths, settings,
          disk, loop, walk, config_data>>

\* the state of run_path_planning
runvars == <<planning_paths, settings, disk, loop>>

---------------------------------------------------------------------------
(* Bounds of the model *)

\* extent of the volume along the first axis
DimX == 3
\* largest n_points of the sampler
MaxPoints == 3
\* largest number of entry points handed to generate_trajectories
MaxEntries == 3

\* shape of every volume of the model: DimX x 2 x 1 voxels
Shape == <<DimX, 2, 1>>

Vox == (0 .. Shape[1] - 1) \X (0 .. Shape[2] - 1) \X (0 .. Shape[3] - 1)

NVox == Shape[1] * Shape[2] * Shape[3]

\* the voxels in C order (last axis fastest), the order of np.nonzero
VoxSeq ==
    [i \in 1 .. NVox |->
        << (i - 1) \div (Shape[2] * Shape[3]),
           ((i - 1) \div Shape[3]) % Shape[2],
           (i - 1) % Shape[3] >>]

Abs(x) == IF x < 0 THEN -x ELSE x

Sign(x) == IF x > 0 THEN 1 ELSE IF x < 0 THEN -1 ELSE 0

Min2(a, b) == IF a < b THEN a ELSE b

SeqRange(s) == {s[i] : i \in 1 .. Len(s)}

---------------------------------------------------------------------------
(* generate_entry_points *)

\* np.swapaxes(np.nonzero(entry_point_mask), 0, 1): the nonzero voxels, in C order
NonZero(m) == SelectSeq(VoxSeq, LAMBDA v : m[v] # 0)

StrideCeil(len, n) == (len + n - 1) \div n

\* math.floor(len(entry_points) / n_points)
Stride(len, n) == len \div n

\* the for loop of generate_entry_points: entry_points[point_id] raises
\* IndexError when point_id is not an index of the raw list
GenerateEntryPoints(m, n) ==
    LET raw == NonZero(m)
        point_id(i) == Stride(Len(raw), n) * i
    IN  IF \E i \in 0 .. n - 1 : point_id(i) >= Len(raw)
        THEN [err |-> "IndexError", val |-> <<>>]
        ELSE [err |-> "none", val |-> [i \in 1 .. n |-> raw[point_id(i - 1) + 1]]]

Masks == [Vox -> {0, 1}]

\* a call outside of run_path_planning: no run, no files
NoRun ==
    /\ planning_paths = <<>>
    /\ settings = 0
    /\ disk = <<>>
    /\ loop = [run |-> 0, sub |-> 0, skipped_img |-> FALSE, called |-> <<>>,
               processed |-> <<>>]

\* no while loop is traced step by step
NoWalk == <<>>

\* config.json is not read
NoConfig == <<>>

NoMask == [v \in Vox |-> 0]

InitSampler ==
    /\ pc = "sample"
    /\ entry_point_mask \in Masks
    /\ n_points \in 0 .. MaxPoints
    /\ entry_points_down = <<>>
    /\ mask = NoMask
    /\ aff = <<1, 1, 1>>
    /\ cutoff = 0
    /\ distance_map = NoMask
    /\ entry_points = <<>>
    /\ target_points = <<>>
    /\ all_trajectories = <<>>
    /\ valid_trajectories = <<>>
    /\ margin_trajectories = <<>>
    /\ NoRun
    /\ walk = NoWalk
    /\ config_data = NoConfig

CallGenerateEntryPoints ==
    /\ pc = "sample"
    /\ \E r \in {GenerateEntryPoints(entry_point_mask, n_points)} :
           /\ pc' = IF r.err = "none" THEN "sampled" ELSE r.err
           /\ entry_points_down' = r.val
    /\ UNCHANGED <<entry_point_mask, n_points, mask, aff, cutoff, distance_map,
                   entry_points, target_points, all_trajectories,
                   valid_trajectories, margin_trajectories>>
    /\ UNCHANGED runvars
    /\ UNCHANGED <<walk, config_data>>

NextSampler == CallGenerateEntryPoints

SpecSampler == InitSampler /\ [][NextSampler]_vars

\* position (1-based) of point p in the sequence s
IndexIn(s, p) == CHOOSE k \in 1 .. Len(s) : s[k] = p

RawPoints == NonZero(entry_point_mask)

RawCount == Len(RawPoints)

SamplerReturned == pc \in {"sampled", "IndexError"}

\* C5: generate_entry_points returns exactly min(n, rawCount) points, each a
\* nonzero voxel of the mask; with rawCount < n there is no error, no padding
\* and no duplicated point.
C5_SamplerBound ==
    SamplerReturned =>
        /\ pc = "sampled"
        /\ Len(entry_points_down) = Min2(n_points, RawCount)
        /\ \A i \in 1 .. Len(entry_points_down) :
              entry_points_down[i] \in SeqRange(RawPoints)
        /\ RawCount < n_points =>
              \A i, j \in 1 .. Len(entry_points_down) :
                  i # j => entry_points_down[i] # entry_points_down[j]

\* C6: when rawCount > n, generate_entry_points returns exactly n points, the
\* raw list at indices 0, s, ..., (n-1)s with s = floor(rawCount/n); every
\* index is below rawCount, the points are pairwise distinct and in increasing
\* raw-index order.
C6_SamplerStride ==
    (SamplerReturned /\ RawCount > n_points) =>
        /\ pc = "sampled"
        /\ Len(entry_points_down) = n_points
        /\ \A i \in 1 .. n_points :
              LET idx == (i - 1) * (RawCount \div n_points)
              IN  /\ idx < RawCount
                  /\ entry_points_down[i] = RawPoints[idx + 1]
        /\ \A i, j \in 1 .. n_points :
              i < j =>
                  /\ entry_points_down[i] # entry_points_down[j]
                  /\ IndexIn(RawPoints, entry_points_down[i])
                       < IndexIn(RawPoints, entry_points_down[j])

\* a sample of two or more points taken with a stride of two or more
C6_Witness ==
    /\ pc = "sampled"
    /\ n_points >= 2
    /\ RawCount > n_points
    /\ RawCount \div n_points >= 2

---------------------------------------------------------------------------
(* generate_distance_map *)

\* Enc(v): how a distance of v mm (v an integer >= 0) is stored
Enc(v) == 9 * v * v

SqDist(u, v) ==
    (u[1] - v[1]) * (u[1] - v[1]) + (u[2] - v[2]) * (u[2] - v[2])
        + (u[3] - v[3]) * (u[3] - v[3])

SetMin(S) == CHOOSE x \in S : \A y \in S : x <= y

\* the background of the transform's input 1 - mask: the voxels where it is 0
Background(m) == {u \in Vox : 1 - m[u] = 0}

\* morph.distance_transform_edt(1 - mask), squared: 0 on the background, else
\* the squared distance to the nearest background voxel.  With no background
\* at all scipy leaves its feature transform at (-1, 0, 0).
EdtSq(m, v) ==
    IF v \in Background(m) THEN 0
    ELSE IF Background(m) = {} THEN SqDist(v, <<-1, 0, 0>>)
    ELSE SetMin({SqDist(v, u) : u \in Background(m)})

\* 3 * np.mean(np.absolute((aff.diagonal())[:-1]))
VoxDim3(a) == Abs(a[1]) + Abs(a[2]) + Abs(a[3])

\* distance_map * vox_dim, stored as 9 * value^2
Scaled(m, a, v) == VoxDim3(a) * VoxDim3(a) * EdtSq(m, v)

GenerateDistanceMapNoClamp(m, a, c) == [v \in Vox |-> Scaled(m, a, v)]

\* the clamp applied to the distance in voxels, before the scaling
GenerateDistanceMapClampFirst(m, a, c) ==
    [v \in Vox |-> IF EdtSq(m, v) > c * c
                   THEN VoxDim3(a) * VoxDim3(a) * c * c ELSE Scaled(m, a, v)]

\* the transform of mask in place of 1 - mask
GenerateDistanceMapOfMask(m, a, c) ==
    [v \in Vox |->
        IF Scaled([u \in Vox |-> 1 - m[u]], a, v) > Enc(c) THEN Enc(c)
        ELSE Scaled([u \in Vox |-> 1 - m[u]], a, v)]

\* generate_distance_map: distance_map[distance_map > cutoff] = cutoff
GenerateDistanceMap(m, a, c) ==
    [v \in Vox |-> IF Scaled(m, a, v) > Enc(c) THEN Enc(c) ELSE Scaled(m, a, v)]

\* diagonals of the affines of the model
Affs == {<<1, 1, 1>>, <<-3, 3, 3>>, <<1, 1, 2>>, <<6, 6, 6>>}

Cutoffs == {0, 2, 15}

InitDist ==
    /\ pc = "distance"
    /\ mask \in Masks
    /\ aff \in Affs
    /\ cutoff \in Cutoffs
    /\ distance_map = NoMask
    /\ entry_point_mask = NoMask
    /\ n_points = 0
    /\ entry_points_down = <<>>
    /\ entry_points = <<>>
    /\ target_points = <<>>
    /\ all_trajectories = <<>>
    /\ valid_trajectories = <<>>
    /\ margin_trajectories = <<>>
    /\ NoRun
    /\ walk = NoWalk
    /\ config_data = NoConfig

\* the transform written into the caller's mask array
CallGenerateDistanceMapInPlace ==
    /\ pc = "distance"
    /\ distance_map' = GenerateDistanceMap(mask, aff, cutoff)
    /\ mask' = distance_map'
    /\ pc' = "lines"
    /\ UNCHANGED <<entry_point_mask, n_points, entry_points_down, aff,
                   cutoff, entry_points, target_points, all_trajectories,
                   valid_trajectories, margin_trajectories>>
    /\ UNCHANGED runvars
    /\ UNCHANGED <<walk, config_data>>

\* generate_possible_paths, the loop that creates the distance map
CallGenerateDistanceMap ==
    /\ pc = "distance"
    /\ distance_map' = GenerateDistanceMap(mask, aff, cutoff)
    /\ pc' = "lines"
    /\ UNCHANGED <<entry_point_mask, n_points, entry_points_down, mask, aff,
                   cutoff, entry_points, target_points, all_trajectories,
                   valid_trajectories, margin_trajectories>>
    /\ UNCHANGED runvars
    /\ UNCHANGED <<walk, config_data>>

NextDist == CallGenerateDistanceMap

SpecDist == InitDist /\ [][NextDist]_vars

DistanceMapReturned == pc # "distance"

\* C7: every voxel of the output of generate_distance_map lies in [0, cutoff],
\* and every voxel that is forbidden in the mask has value exactly 0.
C7_DistanceBound ==
    DistanceMapReturned =>
        \A v \in Vox :
            /\ 0 <= distance_map[v]
            /\ distance_map[v] <= Enc(cutoff)
            /\ mask[v] = 1 => distance_map[v] = 0

\* a map with a forbidden voxel, a voxel clamped to a positive cutoff and a
\* voxel strictly between 0 and the cutoff
C7_Witness ==
    /\ DistanceMapReturned
    /\ cutoff > 0
    /\ \E v \in Vox : mask[v] = 1
    /\ \E v \in Vox : mask[v] = 0 /\ Scaled(mask, aff, v) > Enc(cutoff)
                        /\ distance_map[v] = Enc(cutoff)
    /\ \E v \in Vox : 0 < distance_map[v] /\ distance_map[v] < Enc(cutoff)


---------------------------------------------------------------------------
(* Exact arithmetic on e + a / sqrt(S), with e, a integers and S > 0 *)

\* floor(a / sqrt(S))
FloorQ(a, S) ==
    IF a >= 0
    THEN CHOOSE m \in 0 .. a : m * m * S <= a * a /\ (m + 1) * (m + 1) * S > a * a
    ELSE -(CHOOSE m \in 0 .. -a :
              m * m * S >= a * a /\ (m = 0 \/ (m - 1) * (m - 1) * S < a * a))

\* ceil(a / sqrt(S))
CeilQ(a, S) == -FloorQ(-a, S)

\* the conversion of the float e + a / sqrt(S) to an integer, as int() and
\* np.array(..., dtype=int) do it: truncation toward zero
TruncAt(e, a, S) ==
    LET f == e + FloorQ(a, S)
    IN  IF f >= 0 THEN f ELSE e + CeilQ(a, S)

---------------------------------------------------------------------------
(* calculate_all_lines *)

\* overshoot of generate_trajectories (mm)
Overshoot == 3

\* stands for the int64 minimum, one of the values a cast of NaN to int yields
IntMin == -2147483647

\* outcomes of np.array(nan, dtype=int): undefined in C; the int64 minimum on
\* x86-64, 0 on aarch64
NaNCasts == {IntMin, 0}

RECURSIVE Gcd(_, _)
Gcd(a, b) == IF b = 0 THEN Abs(a) ELSE Gcd(b, a % Abs(b))

\* (target_point - entry_point) / distance, in lowest terms (equal float
\* vectors are equal records); s = 0 is the NaN vector of 0 / 0
Direction(target_point, entry_point) ==
    LET dx == target_point[1] - entry_point[1]
        dy == target_point[2] - entry_point[2]
        dz == target_point[3] - entry_point[3]
        g == Gcd(Gcd(dx, dy), dz)
    IN  IF g = 0 THEN [d |-> <<0, 0, 0>>, s |-> 0]
        ELSE [d |-> <<dx \div g, dy \div g, dz \div g>>,
              s |-> SqDist(target_point, entry_point) \div (g * g)]

\* np.array(target_point + direction * (overshoot / voxel_size), dtype=int)
\* with voxel_size = vd3 / 3; nan is what the cast of NaN yields
StopPoint(target_point, direction, overshoot, vd3, nan) ==
    IF direction.s = 0 THEN <<nan, nan, nan>>
    ELSE [a \in 1 .. 3 |->
            TruncAt(target_point[a], 3 * overshoot * direction.d[a],
                    direction.s * vd3 * vd3)]

\* one row of trajectory_array: [direction, start_point, stop_point]
Line(target_point, entry_point, overshoot, vd3, nan) ==
    LET direction == Direction(target_point, entry_point)
    IN  [direction |-> direction,
         entry |-> entry_point,
         terminal |-> StopPoint(target_point, direction, overshoot, vd3, nan)]

TargetListDropLast(targets, entries, overshoot, vd3, nan) ==
    [t \in 1 .. Len(targets) |->
        [e \in 1 .. Len(entries) - 1 |->
            Line(targets[t], entries[e], overshoot, vd3, nan)]]

\* the two loops of calculate_all_lines: one array per target, one row per
\* entry point
TargetList(targets, entries, overshoot, vd3, nan) ==
    [t \in 1 .. Len(targets) |->
        [e \in 1 .. Len(entries) |->
            Line(targets[t], entries[e], overshoot, vd3, nan)]]

\* calculate_all_lines: the list, or its only array; target_list[0] raises
\* IndexError on an empty list
CalculateAllLines(targets, entries, overshoot, vd3, nan) ==
    LET target_list == TargetList(targets, entries, overshoot, vd3, nan)
    IN  IF Len(target_list) > 1
        THEN [err |-> "none", list |-> TRUE, val |-> target_list]
        ELSE IF Len(target_list) = 1
        THEN [err |-> "none", list |-> FALSE, val |-> target_list[1]]
        ELSE [err |-> "IndexError", list |-> FALSE, val |-> <<>>]

\* if type(paths) != list: paths = [paths]
AsList(r) == IF r.list THEN r.val ELSE <<r.val>>

---------------------------------------------------------------------------
(* The voxel walk shared by calculate_valid_lines and                      *)
(* generate_margin_trajectories                                            *)

\* the loop condition after k steps, current_point = entry + k * direction:
\* ((target_point - current_point) * direction_sign > zeros).any()
\* (every comparison with NaN is False)
Continue(row, k) ==
    /\ row.direction.s # 0
    /\ \E a \in 1 .. 3 :
          LET L == (row.terminal[a] - row.entry[a]) * Sign(row.direction.d[a])
          IN  /\ L > 0
              /\ L * L * row.direction.s
                    > k * k * row.direction.d[a] * row.direction.d[a]

ContinueInclusive(row, k) ==
    /\ row.direction.s # 0
    /\ \E a \in 1 .. 3 :
          LET L == (row.terminal[a] - row.entry[a]) * Sign(row.direction.d[a])
          IN  /\ L > 0
              /\ L * L * row.direction.s
                    > (k + 1) * (k + 1) * row.direction.d[a] * row.direction.d[a]

\* the comparison with >= in place of >: an axis that has reached its
\* terminal coordinate, or has a zero component, keeps the loop going
ContinueOnEqual(row, k) ==
    /\ row.direction.s # 0
    /\ \E a \in 1 .. 3 :
          LET L == (row.terminal[a] - row.entry[a]) * Sign(row.direction.d[a])
          IN  /\ L >= 0
              /\ L * L * row.direction.s
                    >= k * k * row.direction.d[a] * row.direction.d[a]

\* the loop condition of both walks
WalkOn(row, k) == Continue(row, k)

\* (int(current_point[0]), int(current_point[1]), int(current_point[2]))
\* after k steps
IntPoint(row, k) ==
    [a \in 1 .. 3 |-> TruncAt(row.entry[a], k * row.direction.d[a], row.direction.s)]

\* numpy indexing along one axis of extent n: a negative index counts from
\* the end, an index outside -n .. n-1 raises IndexError
InRange(i, n) == -n <= i /\ i < n

NpIndex(i, n) == IF i < 0 THEN i + n ELSE i

Indexable(p) == \A a \in 1 .. 3 : InRange(p[a], Shape[a])

\* the voxel that volume[p[0], p[1], p[2]] reads
VoxelRead(p) == [a \in 1 .. 3 |-> NpIndex(p[a], Shape[a])]

\* the positions the walk of a row steps to when nothing stops it early
RECURSIVE WalkFrom(_, _)
WalkFrom(row, k) ==
    IF WalkOn(row, k) THEN <<IntPoint(row, k + 1)>> \o WalkFrom(row, k + 1)
    ELSE <<>>

Walk(row) == WalkFrom(row, 0)

---------------------------------------------------------------------------
(* calculate_valid_lines *)

\* np.zeros((1, 3, 3)): the placeholder row
ZeroVec == <<0, 0, 0>>

ZeroRow == [direction |-> [d |-> ZeroVec, s |-> 1], entry |-> ZeroVec,
            terminal |-> ZeroVec]

\* the while loop on one row, from step k: "ok", "collision" (path_ok = False
\* and break) or "IndexError" (raised by the lookup in collision_map)
RECURSIVE CheckPath(_, _, _)
CheckPath(row, collision_map, k) ==
    IF ~WalkOn(row, k) THEN "ok"
    ELSE LET p == IntPoint(row, k + 1)
         IN  IF ~Indexable(p) THEN "IndexError"
             ELSE IF collision_map[VoxelRead(p)] THEN "collision"
             ELSE CheckPath(row, collision_map, k + 1)

\* [direction, entry_point, target_point]: the row as it is inserted
Insert3(row) == [direction |-> row.direction, entry |-> row.entry,
                 terminal |-> row.terminal]

\* valid_paths[target_id][1:, :, :]
DropFirst(arr) == SubSeq(arr, 2, Len(arr))

\* no row removed at all
KeepAll(arr) == arr

\* the statement under the comment "Remove zeros row"
RemoveZerosRow(arr) == DropFirst(arr)

\* the loop over the entry points of one target, from row i, with the array
\* built so far; np.concatenate((insert, valid_paths[target_id])) puts the
\* new row first
RECURSIVE ValidRows(_, _, _, _)
ValidRows(rows, i, acc, collision_map) ==
    IF i > Len(rows) THEN [err |-> "none", val |-> RemoveZerosRow(acc)]
    ELSE LET res == CheckPath(rows[i], collision_map, 0)
         IN  IF res = "IndexError" THEN [err |-> "IndexError", val |-> <<>>]
             ELSE ValidRows(rows, i + 1,
                            IF res = "ok" THEN <<Insert3(rows[i])>> \o acc ELSE acc,
                            collision_map)

\* the loop over the targets of calculate_valid_lines
RECURSIVE ValidTargets(_, _, _, _)
ValidTargets(paths, t, out, collision_map) ==
    IF t > Len(paths) THEN [err |-> "none", val |-> out]
    ELSE LET r == ValidRows(paths[t], 1, <<ZeroRow>>, collision_map)
         IN  IF r.err # "none" THEN [err |-> r.err, val |-> <<>>]
             ELSE ValidTargets(paths, t + 1, Append(out, r.val), collision_map)

\* calculate_valid_lines; paths[0] raises IndexError on an empty list
CalculateValidLines(paths, collision_map) ==
    IF Len(paths) = 0 THEN [err |-> "IndexError", val |-> <<>>]
    ELSE ValidTargets(paths, 1, <<>>, collision_map)

---------------------------------------------------------------------------
(* generate_margin_trajectories *)

\* min_margin = 10.0
InitialMinMargin == 10

\* np.zeros((1, 4, 3)): the placeholder row
ZeroRow4 == [direction |-> [d |-> ZeroVec, s |-> 1], entry |-> ZeroVec,
             terminal |-> ZeroVec, margin |-> 0]

\* the loop condition of generate_margin_trajectories after k steps:
\* ((target_point - current_point) * direction_sign > zeros).any()
MarginContinue(row, k) ==
    /\ row.direction.s # 0
    /\ \E a \in 1 .. 3 :
          LET remaining == (row.terminal[a] - row.entry[a]) * Sign(row.direction.d[a])
          IN  /\ remaining > 0
              /\ remaining * remaining * row.direction.s
                    > k * k * row.direction.d[a] * row.direction.d[a]

MarginWalkOn(row, k) == MarginContinue(row, k)

\* the index read before the step: the position after k - 1 steps
IntPointBeforeStep(row, k) ==
    [a \in 1 .. 3 |->
        TruncAt(row.entry[a], (k - 1) * row.direction.d[a], row.direction.s)]

\* the index of distance_map[int(current_point[0]), int(current_point[1]),
\* int(current_point[2])] after k steps
MarginIntPoint(row, k) ==
    [a \in 1 .. 3 |->
        TruncAt(row.entry[a], k * row.direction.d[a], row.direction.s)]

\* the while loop on one row, from step k, with the minimum so far: the
\* minimum at the end, or -1 for the IndexError the lookup raises
RECURSIVE MinMargin(_, _, _, _)
MinMargin(row, dmap, k, min_margin) ==
    IF ~MarginWalkOn(row, k) THEN min_margin
    ELSE LET p == MarginIntPoint(row, k + 1)
         IN  IF ~Indexable(p) THEN -1
             ELSE LET current_margin == dmap[VoxelRead(p)]
                  IN  MinMargin(row, dmap, k + 1,
                                IF current_margin < min_margin
                                THEN current_margin ELSE min_margin)

Insert4(row, min_margin) ==
    [direction |-> row.direction, entry |-> row.entry,
     terminal |-> row.terminal, margin |-> min_margin]

\* the loop over the rows of one target
RECURSIVE MarginRows(_, _, _, _, _)
MarginRows(rows, i, acc, dmap, margin) ==
    IF i > Len(rows) THEN [err |-> "none", val |-> RemoveZerosRow(acc)]
    ELSE LET m == MinMargin(rows[i], dmap, 0, Enc(InitialMinMargin))
         IN  IF m = -1 THEN [err |-> "IndexError", val |-> <<>>]
             ELSE MarginRows(rows, i + 1,
                             IF m > Enc(margin)
                             THEN <<Insert4(rows[i], m)>> \o acc ELSE acc,
                             dmap, margin)

RECURSIVE MarginTargets(_, _, _, _, _)
MarginTargets(trajectories, t, out, dmap, margin) ==
    IF t > Len(trajectories) THEN [err |-> "none", val |-> out]
    ELSE LET r == MarginRows(trajectories[t], 1, <<ZeroRow4>>, dmap, margin)
         IN  IF r.err # "none" THEN [err |-> r.err, val |-> <<>>]
             ELSE MarginTargets(trajectories, t + 1, Append(out, r.val), dmap,
                                margin)

\* generate_margin_trajectories
GenerateMarginTrajectories(trajectories, dmap, margin) ==
    IF Len(trajectories) = 0 THEN [err |-> "IndexError", val |-> <<>>]
    ELSE MarginTargets(trajectories, 1, <<>>, dmap, margin)

---------------------------------------------------------------------------
(* generate_possible_paths: generate_distance_map, then                    *)
(* generate_trajectories = calculate_all_lines, calculate_valid_lines,     *)
(* generate_margin_trajectories                                            *)

\* cutoff of generate_distance_map when none is given
DefaultCutoff == 15

\* margin of generate_margin_trajectories when none is given
DefaultMargin == 0

\* a collision map that is False everywhere
CollisionMapNone(dmap) == [v \in Vox |-> FALSE]

\* collision_map = (distance_map == 0.0)
CollisionMap(dmap) == [v \in Vox |-> dmap[v] = 0]

\* the forbidden masks of the planning runs: one forbidden voxel
PlanMasks == {m \in Masks : Cardinality(Background(m)) = 1}

\* the affines of the planning runs: isotropic voxels of 3 mm and of 6 mm
PlanAffs == {<<3, 3, 3>>, <<-6, 6, 6>>}

\* the entry point arrays generate_entry_points can return
EntryLists ==
    {GenerateEntryPoints(m, n).val :
        <<m, n>> \in {x \in Masks \X (0 .. MaxEntries) :
                        GenerateEntryPoints(x[1], x[2]).err = "none"}}

\* one target point, or a list of two that are adjacent in C order
TargetLists ==
    {<<VoxSeq[i]>> : i \in 1 .. NVox}
        \cup {<<VoxSeq[i], VoxSeq[i + 1]>> : i \in 1 .. NVox - 1}

Init ==
    /\ pc = "distance"
    /\ mask \in PlanMasks
    /\ aff \in PlanAffs
    /\ cutoff = DefaultCutoff
    /\ distance_map = NoMask
    /\ entry_points \in EntryLists
    /\ target_points \in TargetLists
    /\ entry_point_mask = NoMask
    /\ n_points = 0
    /\ entry_points_down = <<>>
    /\ all_trajectories = <<>>
    /\ valid_trajectories = <<>>
    /\ margin_trajectories = <<>>
    /\ NoRun
    /\ walk = NoWalk
    /\ config_data = NoConfig

\* all_trajectories = calculate_all_lines(target_points, entry_points,
\*                                        overshoot, voxel_size)
CallCalculateAllLines ==
    /\ pc = "lines"
    /\ \E nan \in NaNCasts :
          \E r \in {CalculateAllLines(target_points, entry_points, Overshoot,
                                     VoxDim3(aff), nan)} :
              /\ pc' = IF r.err = "none" THEN "valid" ELSE "raised_lines"
              /\ all_trajectories' = r
    /\ UNCHANGED <<entry_point_mask, n_points, entry_points_down, mask, aff,
                   cutoff, distance_map, entry_points, target_points,
                   valid_trajectories, margin_trajectories>>
    /\ UNCHANGED runvars
    /\ UNCHANGED <<walk, config_data>>

\* valid_trajectories = calculate_valid_lines(all_trajectories, collision_map)
CallCalculateValidLines ==
    /\ pc = "valid"
    /\ \E r \in {CalculateValidLines(AsList(all_trajectories),
                                    CollisionMap(distance_map))} :
           /\ pc' = IF r.err = "none" THEN "margin" ELSE "raised_valid"
           /\ valid_trajectories' = r.val
    /\ UNCHANGED <<entry_point_mask, n_points, entry_points_down, mask, aff,
                   cutoff, distance_map, entry_points, target_points,
                   all_trajectories, margin_trajectories>>
    /\ UNCHANGED runvars
    /\ UNCHANGED <<walk, config_data>>

\* margin_trajectories = generate_margin_trajectories(valid_trajectories,
\*                                                    distance_map)
CallGenerateMarginTrajectories ==
    /\ pc = "margin"
    /\ \E r \in {GenerateMarginTrajectories(valid_trajectories, distance_map,
                                           DefaultMargin)} :
           /\ pc' = IF r.err = "none" THEN "done" ELSE "raised_margin"
           /\ margin_trajectories' = r.val
    /\ UNCHANGED <<entry_point_mask, n_points, entry_points_down, mask, aff,
                   cutoff, distance_map, entry_points, target_points,
                   all_trajectories, valid_trajectories>>
    /\ UNCHANGED runvars
    /\ UNCHANGED <<walk, config_data>>

Next ==
    \/ CallGenerateDistanceMap
    \/ CallCalculateAllLines
    \/ CallCalculateValidLines
    \/ CallGenerateMarginTrajectories

Spec == Init /\ [][Next]_vars

---------------------------------------------------------------------------
(* Claims on calculate_all_lines *)

LinesReturned == pc \in {"valid", "margin", "done", "raised_valid", "raised_margin"}

\* the arrays calculate_valid_lines loops over
Paths == AsList(all_trajectories)

\* x * sqrt(S) <= y
LeqSqrt(x, S, y) ==
    IF x >= 0 THEN y >= 0 /\ x * x * S <= y * y
    ELSE y >= 0 \/ x * x * S >= y * y

\* v is an integer nearest to e + a / sqrt(S): |v - e - a / sqrt(S)| <= 1/2
IsNearest(v, e, a, S) ==
    /\ LeqSqrt(2 * (v - e) - 1, S, 2 * a)
    /\ LeqSqrt(-(2 * (v - e) + 1), S, -(2 * a))

\* C8: for every entry # target, the terminal point of calculate_all_lines is,
\* per axis, round-to-nearest of target + direction * (overshoot / voxel_size).
C8_OvershootTerminal ==
    LinesReturned =>
        \A t \in 1 .. Len(target_points) : \A e \in 1 .. Len(entry_points) :
            entry_points[e] # target_points[t] =>
                \A a \in 1 .. 3 :
                    IsNearest(Paths[t][e].terminal[a], target_points[t][a],
                              3 * Overshoot * Paths[t][e].direction.d[a],
                              Paths[t][e].direction.s * VoxDim3(aff) * VoxDim3(aff))

\* C9: calculate_all_lines produces exactly one trajectory for every
\* (target, entry) pair and nothing else: |targets| arrays of |entries| rows,
\* in entry-list order, row e of array t starting at entry e and pointing
\* from entry e to target t.
C9_PureEnumeration ==
    LinesReturned =>
        /\ all_trajectories.err = "none"
        /\ all_trajectories.list = (Len(target_points) > 1)
        /\ Len(Paths) = Len(target_points)
        /\ \A t \in 1 .. Len(target_points) :
              /\ Len(Paths[t]) = Len(entry_points)
              /\ \A e \in 1 .. Len(entry_points) :
                    /\ Paths[t][e].entry = entry_points[e]
                    /\ \E g \in 0 .. DimX :
                          \A a \in 1 .. 3 :
                              g * Paths[t][e].direction.d[a]
                                  = target_points[t][a] - entry_points[e][a]

\* two targets enumerated against two or more entry points
C9_Witness ==
    /\ pc = "valid"
    /\ Len(target_points) = 2
    /\ Len(entry_points) >= 2
    /\ entry_points[1] # entry_points[2]

---------------------------------------------------------------------------
(* Claims on calculate_valid_lines *)

ValidReturned == pc \in {"margin", "done", "raised_margin"}

CMap == CollisionMap(distance_map)

\* the voxels the walk of calculate_valid_lines reads for a row, from step k:
\* up to and including the first forbidden one
RECURSIVE ProbedFrom(_, _)
ProbedFrom(row, k) ==
    IF ~WalkOn(row, k) \/ ~Indexable(IntPoint(row, k + 1)) THEN <<>>
    ELSE IF CMap[VoxelRead(IntPoint(row, k + 1))]
    THEN <<VoxelRead(IntPoint(row, k + 1))>>
    ELSE <<VoxelRead(IntPoint(row, k + 1))>> \o ProbedFrom(row, k + 1)

Probed(row) == ProbedFrom(row, 0)

\* a row with a direction that is not NaN (its entry differs from its target)
Finite(row) == row.direction.s # 0

\* C1: every input trajectory of calculate_valid_lines is retained if and only
\* if none of the voxels probed by its walk is forbidden in the collision map
\* (stated for the trajectories with entry # target).
C1_CollisionSoundness ==
    ValidReturned =>
        \A t \in 1 .. Len(Paths) : \A i \in 1 .. Len(Paths[t]) :
            Finite(Paths[t][i]) =>
                ((Paths[t][i] \in SeqRange(valid_trajectories[t]))
                    <=> (\A v \in SeqRange(Probed(Paths[t][i])) : ~CMap[v]))

\* a direction along one axis: a signed unit axis vector
AxisAligned(direction) ==
    /\ direction.s = 1
    /\ Cardinality({a \in 1 .. 3 : direction.d[a] # 0}) = 1

\* p + j * d
Along(p, j, d) == [a \in 1 .. 3 |-> p[a] + j * d[a]]

\* the number of steps from the entry to the terminal of an axis-aligned row
\* whose terminal lies ahead of the entry on its axis, else 0
SegmentLength(row) ==
    LET L == SetMin({Abs(row.terminal[a] - row.entry[a]) : a \in
                        {b \in 1 .. 3 : row.direction.d[b] # 0}})
    IN  IF row.terminal = Along(row.entry, L, row.direction.d) THEN L ELSE 0

\* C10: for an axis-aligned trajectory the walk probes every voxel after the
\* entry up to and including the terminal, in order, so if any voxel on that
\* segment is forbidden calculate_valid_lines discards the trajectory.
C10_StraightThroughDiscard ==
    ValidReturned =>
        \A t \in 1 .. Len(Paths) : \A i \in 1 .. Len(Paths[t]) :
            LET row == Paths[t][i]
            IN  (AxisAligned(row.direction) /\ SegmentLength(row) > 0) =>
                    /\ Walk(row) = [j \in 1 .. SegmentLength(row) |->
                                        Along(row.entry, j, row.direction.d)]
                    /\ (\E j \in 1 .. SegmentLength(row) :
                            /\ Along(row.entry, j, row.direction.d) \in Vox
                            /\ CMap[Along(row.entry, j, row.direction.d)])
                        => row \notin SeqRange(valid_trajectories[t])

\* calculate_valid_lines returned, and one axis-aligned trajectory met its
\* first forbidden voxel two or more steps after the entry
C10_Witness ==
    /\ ValidReturned
    /\ \E t \in 1 .. Len(Paths) : \E i \in 1 .. Len(Paths[t]) :
          /\ AxisAligned(Paths[t][i].direction)
          /\ SegmentLength(Paths[t][i]) >= 2
          /\ Len(Probed(Paths[t][i])) >= 2
          /\ CMap[Probed(Paths[t][i])[Len(Probed(Paths[t][i]))]]
          /\ Paths[t][i] \notin SeqRange(valid_trajectories[t])

---------------------------------------------------------------------------
(* Claims on generate_margin_trajectories *)

MarginReturned == pc = "done"

SeqMin(s) == SetMin({s[i] : i \in 1 .. Len(s)})

\* the minimum of the distance map over the voxels probed by the walk of a
\* row; over no voxel at all, the top of the range of the map
WalkMin(row) ==
    IF Walk(row) = <<>> THEN Enc(cutoff)
    ELSE SeqMin([j \in 1 .. Len(Walk(row)) |-> distance_map[VoxelRead(Walk(row)[j])]])

\* C2: for every trajectory generate_margin_trajectories returns, the margin
\* is the minimum distance-map value over exactly the voxels probed by the
\* trajectory's walk, also when the walk probes only voxels with a value
\* above 10 (stated for the walks that probe one voxel or more, where the
\* minimum is defined).
C2_MarginCorrectness ==
    MarginReturned =>
        \A t \in 1 .. Len(margin_trajectories) :
            \A i \in 1 .. Len(margin_trajectories[t]) :
                Walk(margin_trajectories[t][i]) # <<>> =>
                    margin_trajectories[t][i].margin
                        = WalkMin(margin_trajectories[t][i])

\* C3: for every target, the list generate_margin_trajectories returns is
\* sorted descending by margin: margin[i] >= margin[i+1] for every adjacent
\* pair (stated for the pairs of trajectories with entry # target).
C3_RankingOrder ==
    MarginReturned =>
        \A t \in 1 .. Len(margin_trajectories) :
            \A i \in 1 .. Len(margin_trajectories[t]) - 1 :
                (Finite(margin_trajectories[t][i])
                    /\ Finite(margin_trajectories[t][i + 1])) =>
                        margin_trajectories[t][i].margin
                            >= margin_trajectories[t][i + 1].margin

\* C4: no returned trajectory has margin <= minMargin, and every input
\* trajectory whose walk minimum is > minMargin is returned.
C4_MarginFilter ==
    MarginReturned =>
        \A t \in 1 .. Len(margin_trajectories) :
            /\ \A i \in 1 .. Len(margin_trajectories[t]) :
                  margin_trajectories[t][i].margin > Enc(DefaultMargin)
            /\ \A i \in 1 .. Len(valid_trajectories[t]) :
                  WalkMin(valid_trajectories[t][i]) > Enc(DefaultMargin) =>
                      \E j \in 1 .. Len(margin_trajectories[t]) :
                          Insert3(margin_trajectories[t][j]) = valid_trajectories[t][i]

---------------------------------------------------------------------------
(* Claims on the probes of the two walks *)

\* the positions (before any wrap-around) that the walk of
\* calculate_valid_lines steps to for a row, from step k: up to and including
\* the first one that is forbidden or cannot be indexed
RECURSIVE SteppedFrom(_, _)
SteppedFrom(row, k) ==
    IF ~WalkOn(row, k) THEN <<>>
    ELSE IF ~Indexable(IntPoint(row, k + 1)) \/ CMap[VoxelRead(IntPoint(row, k + 1))]
    THEN <<IntPoint(row, k + 1)>>
    ELSE <<IntPoint(row, k + 1)>> \o SteppedFrom(row, k + 1)

Stepped(row) == SteppedFrom(row, 0)

\* the row steps to a position outside the extent of the volume
StepsOutside(row) == \E p \in SeqRange(Stepped(row)) : p \notin Vox

\* C11: whenever a walk of calculate_valid_lines or
\* generate_margin_trajectories steps outside the volume extent, the probe is
\* treated as a collision / margin 0 and the trajectory is dropped: no error
\* is raised, and no trajectory that stepped outside (whose probe read a
\* wrapped-around voxel) is returned.
C11_OutOfBoundsFailSafe ==
    /\ pc \notin {"raised_valid", "raised_margin"}
    /\ ValidReturned =>
          \A t \in 1 .. Len(Paths) : \A i \in 1 .. Len(Paths[t]) :
              (Finite(Paths[t][i]) /\ StepsOutside(Paths[t][i])) =>
                  Paths[t][i] \notin SeqRange(valid_trajectories[t])
    /\ MarginReturned =>
          \A t \in 1 .. Len(margin_trajectories) :
              \A i \in 1 .. Len(margin_trajectories[t]) :
                  ~StepsOutside(margin_trajectories[t][i])

---------------------------------------------------------------------------
(* Claims on empty results *)

\* the verdict of calculate_valid_lines on row i of target t
Verdict(t, i) == CheckPath(Paths[t][i], CMap, 0)

\* the margin generate_margin_trajectories computes for row i of target t
\* of its input (-1: the lookup raises)
RowMargin(t, i) ==
    MinMargin(valid_trajectories[t][i], distance_map, 0, Enc(InitialMinMargin))

---------------------------------------------------------------------------
(* Claims on degenerate pairs *)

\* some entry point equals some target point
HasDegenerate ==
    \E t \in 1 .. Len(target_points) : \E e \in 1 .. Len(entry_points) :
        entry_points[e] = target_points[t]

\* the lines of the batch without the degenerate pairs
FiniteLines == [t \in 1 .. Len(Paths) |-> SelectSeq(Paths[t], Finite)]

\* calculate_valid_lines and generate_margin_trajectories on the batch
\* without the degenerate pairs
FiniteValid == CalculateValidLines(FiniteLines, CMap)

FiniteMargin ==
    IF FiniteValid.err # "none" THEN FiniteValid
    ELSE GenerateMarginTrajectories(FiniteValid.val, distance_map, DefaultMargin)

\* C13: for a batch in which some entry point equals a target point, the
\* pipeline does not abort (unless it also aborts without the degenerate
\* pairs), no degenerate pair (non-finite direction) is in the final list, and
\* the final list is the one the batch without the degenerate pairs yields.
C13_DegenerateFiltered ==
    HasDegenerate =>
        /\ pc \in {"raised_valid", "raised_margin"} => FiniteMargin.err # "none"
        /\ MarginReturned =>
              /\ \A t \in 1 .. Len(margin_trajectories) :
                    \A i \in 1 .. Len(margin_trajectories[t]) :
                        Finite(margin_trajectories[t][i])
              /\ FiniteMargin.err = "none"
              /\ margin_trajectories = FiniteMargin.val

---------------------------------------------------------------------------
(* Claims on the independence of the trajectories *)

Reverse(s) == [i \in 1 .. Len(s) |-> s[Len(s) + 1 - i]]

\* the rows calculate_valid_lines returns for one sub-batch of one target
ValidOf(rows) == SeqRange(ValidRows(rows, 1, <<ZeroRow>>, CMap).val)

\* the rows generate_margin_trajectories returns for one sub-batch
MarginOf(rows) ==
    SeqRange(MarginRows(rows, 1, <<ZeroRow4>>, distance_map, DefaultMargin).val)

\* C16: the verdict of calculate_valid_lines and the margin of
\* generate_margin_trajectories depend only on the trajectory and the
\* volume: the batch of a target processed in reverse order, or split at any
\* point into two sub-batches whose results are merged, yields the same set
\* of retained trajectories (with the same margins) as the sequential run
\* (stated for the batches whose trajectories all have entry # target).
C16_Independence ==
    /\ ValidReturned =>
          \A t \in 1 .. Len(Paths) :
              (\A i \in 1 .. Len(Paths[t]) : Finite(Paths[t][i])) =>
                  /\ ValidOf(Reverse(Paths[t])) = SeqRange(valid_trajectories[t])
                  /\ \A k \in 0 .. Len(Paths[t]) :
                        ValidOf(SubSeq(Paths[t], 1, k))
                            \cup ValidOf(SubSeq(Paths[t], k + 1, Len(Paths[t])))
                          = SeqRange(valid_trajectories[t])
    /\ MarginReturned =>
          \A t \in 1 .. Len(valid_trajectories) :
              LET rows == valid_trajectories[t]
              IN  (\A i \in 1 .. Len(rows) : Finite(rows[i])) =>
                      /\ MarginOf(Reverse(rows)) = SeqRange(margin_trajectories[t])
                      /\ \A k \in 0 .. Len(rows) :
                            MarginOf(SubSeq(rows, 1, k))
                                \cup MarginOf(SubSeq(rows, k + 1, Len(rows)))
                              = SeqRange(margin_trajectories[t])

---------------------------------------------------------------------------
(* Claims on the two walks *)

\* the positions the walk of generate_margin_trajectories steps to for a
\* row, from step k
RECURSIVE MarginWalkFrom(_, _)
MarginWalkFrom(row, k) ==
    IF MarginWalkOn(row, k)
    THEN <<MarginIntPoint(row, k + 1)>> \o MarginWalkFrom(row, k + 1)
    ELSE <<>>

MarginWalk(row) == MarginWalkFrom(row, 0)

IsPrefix(s, t) == Len(s) <= Len(t) /\ s = SubSeq(t, 1, Len(s))

\* C19: for every trajectory, the sequence of positions probed by
\* generate_margin_trajectories is the sequence calculate_valid_lines probes
\* on a collision-free map, and calculate_valid_lines on the map with
\* collisions probes a prefix of it.
C19_SameWalk ==
    ValidReturned =>
        \A t \in 1 .. Len(Paths) : \A i \in 1 .. Len(Paths[t]) :
            /\ MarginWalk(Paths[t][i]) = Walk(Paths[t][i])
            /\ IsPrefix(Stepped(Paths[t][i]), Walk(Paths[t][i]))

\* an oblique trajectory of two or more steps, and a trajectory that
\* calculate_valid_lines stops on before the end of its walk
C19_Witness ==
    /\ ValidReturned
    /\ \E t \in 1 .. Len(Paths) : \E i \in 1 .. Len(Paths[t]) :
          /\ Paths[t][i].direction.s > 1
          /\ Len(MarginWalk(Paths[t][i])) >= 2
    /\ \E t \in 1 .. Len(Paths) : \E i \in 1 .. Len(Paths[t]) :
          /\ Len(Stepped(Paths[t][i])) >= 1
          /\ Len(Stepped(Paths[t][i])) < Len(Walk(Paths[t][i]))

---------------------------------------------------------------------------
(* Claims on the probed voxel *)

\* C20: at every step of the walk of calculate_valid_lines and of
\* generate_margin_trajectories, the index that is read is, per axis, an
\* integer nearest to the running position entry + k * direction, for every
\* direction (oblique ones and negative components included).
C20_NearestVoxel ==
    ValidReturned =>
        \A t \in 1 .. Len(Paths) : \A i \in 1 .. Len(Paths[t]) :
            LET row == Paths[t][i]
            IN  Finite(row) =>
                    /\ \A k \in 1 .. Len(Stepped(row)) : \A a \in 1 .. 3 :
                          IsNearest(Stepped(row)[k][a], row.entry[a],
                                    k * row.direction.d[a], row.direction.s)
                    /\ \A k \in 1 .. Len(MarginWalk(row)) : \A a \in 1 .. 3 :
                          IsNearest(MarginWalk(row)[k][a], row.entry[a],
                                    k * row.direction.d[a], row.direction.s)

---------------------------------------------------------------------------
(* Claims on the inputs of the calls *)

\* C15: no call mutates its inputs: across every step the forbidden mask, the
\* affine, the entry point array and the target point list keep their values,
\* and so do the distance map, the lines and the valid lines once the call
\* that produced them has returned.
C15_InputsNotMutated ==
    [][/\ mask' = mask
       /\ aff' = aff
       /\ entry_points' = entry_points
       /\ target_points' = target_points
       /\ pc # "distance" => distance_map' = distance_map
       /\ pc # "lines" => all_trajectories' = all_trajectories
       /\ pc # "valid" => valid_trajectories' = valid_trajectories]_vars

\* the three stages ran on a batch of two targets and two or more entry
\* points, and the inputs are the ones the run started with
C15_Witness ==
    /\ pc = "done"
    /\ Len(target_points) = 2
    /\ Len(entry_points) >= 2
    /\ mask \in PlanMasks
    /\ Len(Paths) = 2
    /\ Len(valid_trajectories) = 2

---------------------------------------------------------------------------
(* run_path_planning: the main loop over the subjects, and                 *)
(* generate_possible_paths step by step                                    *)

\* generate_trajectories: the three stages in a row; an exception of one
\* stage ends the call
GenerateTrajectories(entries, targets, dmap, a, nan) ==
    LET lines == CalculateAllLines(targets, entries, Overshoot, VoxDim3(a), nan)
        valid == CalculateValidLines(AsList(lines), CollisionMap(dmap))
        margins == GenerateMarginTrajectories(valid.val, dmap, DefaultMargin)
    IN  IF lines.err # "none"
        THEN [err |-> "raised_lines", all |-> lines, valid |-> <<>>,
              margin |-> <<>>]
        ELSE IF valid.err # "none"
        THEN [err |-> "raised_valid", all |-> lines, valid |-> <<>>,
              margin |-> <<>>]
        ELSE IF margins.err # "none"
        THEN [err |-> "raised_margin", all |-> lines, valid |-> valid.val,
              margin |-> <<>>]
        ELSE [err |-> "none", all |-> lines, valid |-> valid.val,
              margin |-> margins.val]

\* the subjects of paths["ctreg_paths"], in the order of planning_paths
SubjectNames == <<"sub-01", "sub-02">>

Subjects == 1 .. Len(SubjectNames)

\* n_points of generate_entry_points in the runs of the model (the default
\* of the code, 10000, scaled to the volume of the model)
RunNPoints == 2

\* the two hard-coded points of generate_target_points, scaled into the
\* volume of the model
TargetPoints == <<VoxSeq[2], VoxSeq[3]>>

\* the final mask of the subjects: the last voxel is forbidden
RunMask == [v \in Vox |-> IF v = VoxSeq[NVox] THEN 1 ELSE 0]

\* the entry point masks of the subjects: no voxel, one voxel, two voxels
RunEntryMasks ==
    {NoMask,
     [v \in Vox |-> IF v = VoxSeq[1] THEN 1 ELSE 0],
     [v \in Vox |-> IF v \in {VoxSeq[1], VoxSeq[NVox - 1]} THEN 1 ELSE 0]}

\* the files generate_possible_paths and generate_entry_points load for one
\* subject: the shape of the CT, the final mask and its affine, the entry
\* point mask and its affine
SubjectFiles ==
    [CT_shape : {Shape, <<Shape[1], Shape[2], Shape[3] + 1>>},
     final_mask : {RunMask},
     aff_mask_combined : {<<-6, 6, 6>>},
     entry_point_mask : RunEntryMasks,
     aff_entry_point_mask : {<<-6, 6, 6>>, <<3, 3, 3>>}]

InitRun ==
    /\ pc = "loop"
    /\ planning_paths \in [Subjects -> SubjectFiles]
    /\ settings \in {0, 1, 2}
    /\ disk \in [Subjects -> [output_path : BOOLEAN, distance_map_combined : {0}]]
    /\ loop = [run |-> 1, sub |-> 1, skipped_img |-> FALSE,
               called |-> <<{}, {}>>, processed |-> <<{}, {}>>]
    /\ walk = NoWalk
    /\ config_data = NoConfig
    /\ entry_point_mask = NoMask
    /\ n_points = 0
    /\ entry_points_down = <<>>
    /\ mask = NoMask
    /\ aff = <<1, 1, 1>>
    /\ cutoff = DefaultCutoff
    /\ distance_map = NoMask
    /\ entry_points = <<>>
    /\ target_points = <<>>
    /\ all_trajectories = <<>>
    /\ valid_trajectories = <<>>
    /\ margin_trajectories = <<>>

\* the variables of one call of generate_possible_paths
callvars == <<entry_point_mask, n_points, entry_points_down, mask, aff, cutoff,
              distance_map, entry_points, target_points, all_trajectories,
              valid_trajectories, margin_trajectories>>

\* one iteration of the main loop of run_path_planning, up to the call of
\* generate_possible_paths
RunLoopIteration ==
    /\ pc = "loop"
    /\ loop.sub <= Len(SubjectNames)
    /\ LET output_ok == disk[loop.sub].output_path
       IN  IF output_ok /\ settings = 0
           THEN /\ loop' = [loop EXCEPT !.skipped_img = TRUE, !.sub = @ + 1]
                /\ pc' = "loop"
           ELSE IF output_ok /\ settings # 1
           THEN /\ pc' = "ValueError"
                /\ UNCHANGED loop
           ELSE /\ pc' = "gpp_distance"
                /\ loop' = [loop EXCEPT !.called[loop.run] = @ \cup {loop.sub}]
    /\ UNCHANGED <<planning_paths, settings, disk>>
    /\ UNCHANGED <<walk, config_data>>
    /\ UNCHANGED callvars

\* the end of the main loop: run_path_planning returns
RunLoopEnd ==
    /\ pc = "loop"
    /\ loop.sub > Len(SubjectNames)
    /\ pc' = "returned"
    /\ UNCHANGED runvars
    /\ UNCHANGED <<walk, config_data>>
    /\ UNCHANGED callvars

\* run_path_planning is run a second time on the same subjects
Rerun ==
    /\ pc = "returned"
    /\ loop.run = 1
    /\ loop' = [loop EXCEPT !.run = 2, !.sub = 1, !.skipped_img = FALSE]
    /\ pc' = "loop"
    /\ UNCHANGED <<planning_paths, settings, disk>>
    /\ UNCHANGED <<walk, config_data>>
    /\ UNCHANGED callvars
\* generate_possible_paths: the images are loaded, the distance map is
\* created and saved
GppDistanceMaps ==
    /\ pc = "gpp_distance"
    /\ mask' = planning_paths[loop.sub].final_mask
    /\ aff' = planning_paths[loop.sub].aff_mask_combined
    /\ cutoff' = DefaultCutoff
    /\ distance_map' = GenerateDistanceMap(mask', aff', DefaultCutoff)
    /\ disk' = [disk EXCEPT ![loop.sub].distance_map_combined = @ + 1]
    /\ pc' = "gpp_entries"
    /\ entry_point_mask' = NoMask
    /\ n_points' = 0
    /\ entry_points_down' = <<>>
    /\ entry_points' = <<>>
    /\ target_points' = <<>>
    /\ all_trajectories' = <<>>
    /\ valid_trajectories' = <<>>
    /\ margin_trajectories' = <<>>
    /\ UNCHANGED <<planning_paths, settings, loop>>
    /\ UNCHANGED <<walk, config_data>>

\* generate_possible_paths: entry_points = generate_entry_points(subject_paths)
GppEntryPoints ==
    /\ pc = "gpp_entries"
    /\ entry_point_mask' = planning_paths[loop.sub].entry_point_mask
    /\ n_points' = RunNPoints
    /\ \E r \in {GenerateEntryPoints(entry_point_mask', RunNPoints)} :
           /\ pc' = IF r.err = "none" THEN "gpp_targets" ELSE "raised_entries"
           /\ entry_points_down' = r.val
           /\ entry_points' = r.val
    /\ UNCHANGED <<mask, aff, cutoff, distance_map, target_points,
                   all_trajectories, valid_trajectories, margin_trajectories>>
    /\ UNCHANGED runvars
    /\ UNCHANGED <<walk, config_data>>

\* generate_possible_paths: target_points = generate_target_points(subject_paths)
GppTargetPoints ==
    /\ pc = "gpp_targets"
    /\ target_points' = TargetPoints
    /\ pc' = "gpp_trajectories"
    /\ UNCHANGED <<entry_point_mask, n_points, entry_points_down, mask, aff,
                   cutoff, distance_map, entry_points, all_trajectories,
                   valid_trajectories, margin_trajectories>>
    /\ UNCHANGED runvars
    /\ UNCHANGED <<walk, config_data>>

\* generate_possible_paths: trajectories = generate_trajectories(...), the
\* last statement of the function; then the loop goes on to the next subject
GppTrajectories ==
    /\ pc = "gpp_trajectories"
    /\ \E nan \in NaNCasts :
          \E r \in {GenerateTrajectories(entry_points, target_points,
                                        distance_map, aff, nan)} :
              /\ all_trajectories' = r.all
              /\ valid_trajectories' = r.valid
              /\ margin_trajectories' = r.margin
              /\ IF r.err = "none"
                 THEN /\ pc' = "loop"
                      /\ loop' = [loop EXCEPT !.sub = @ + 1,
                                              !.processed[loop.run] = @ \cup {loop.sub}]
                 ELSE /\ pc' = r.err
                      /\ UNCHANGED loop
    /\ UNCHANGED <<entry_point_mask, n_points, entry_points_down, mask, aff,
                   cutoff, distance_map, entry_points, target_points>>
    /\ UNCHANGED <<planning_paths, settings, disk>>
    /\ UNCHANGED <<walk, config_data>>

NextRun ==
    \/ RunLoopIteration
    \/ RunLoopEnd
    \/ Rerun
    \/ GppDistanceMaps
    \/ GppEntryPoints
    \/ GppTargetPoints
    \/ GppTrajectories

SpecRun == InitRun /\ [][NextRun]_vars

---------------------------------------------------------------------------
\* C17: whenever generate_possible_paths has returned without error for a
\* subject, the output_path file of that subject exists, so that a later run
\* finds output_ok true for it.
C17_ResultPersisted ==
    \A r \in DOMAIN loop.processed :
        \A s \in loop.processed[r] : disk[s].output_path

\* C18: with resetModules[4] = 0 the second run does not call
\* generate_possible_paths for any subject the first run processed and
\* rewrites none of its files; with resetModules[4] = 1 a run that returns
\* has called generate_possible_paths for every subject.
C18_IdempotentRerun ==
    /\ settings = 0 =>
          /\ loop.processed[1] \cap loop.called[2] = {}
          /\ \A s \in loop.processed[1] : disk[s].distance_map_combined <= 1
    /\ (settings = 1 /\ pc = "returned") =>
          loop.called[loop.run] = Subjects

\* the forbidden mask, the entry point mask and the reference volume of a
\* subject have the same voxel grid shape and the same affine
FilesAgree(f) ==
    /\ f.CT_shape = Shape
    /\ f.aff_entry_point_mask = f.aff_mask_combined

\* C14: for a subject whose forbidden mask, entry point mask and reference
\* volume differ in shape or affine, generate_possible_paths writes no
\* output, enumerates no trajectory and does not return normally.
C14_MismatchFatal ==
    \A s \in Subjects :
        ~FilesAgree(planning_paths[s]) =>
            /\ disk[s].distance_map_combined = 0
            /\ \A r \in DOMAIN loop.processed : s \notin loop.processed[r]
            /\ ~(loop.sub = s /\ pc \in {"gpp_entries", "gpp_targets",
                                         "gpp_trajectories"})

---------------------------------------------------------------------------
(* Claims on trajectories that never advance *)

\* the entry of the row is its terminal, or its direction is zero on every
\* axis, or its direction is NaN
NonAdvancing(row) ==
    \/ row.entry = row.terminal
    \/ row.direction.d = ZeroVec
    \/ row.direction.s = 0

\* C21: a trajectory whose entry equals its terminal, or whose direction is
\* zero or non-finite on every axis, is retained by calculate_valid_lines and
\* no voxel of the collision map is probed for it, whatever the mask holds.
C21_NonAdvancingPasses ==
    ValidReturned =>
        \A t \in 1 .. Len(Paths) : \A i \in 1 .. Len(Paths[t]) :
            NonAdvancing(Paths[t][i]) =>
                /\ Stepped(Paths[t][i]) = <<>>
                /\ Paths[t][i] \in SeqRange(valid_trajectories[t])

---------------------------------------------------------------------------
(* Claims on the values of the distance map *)

\* the forbidden voxels of the mask
Forbidden == {u \in Vox : mask[u] = 1}

\* the scaled distances (stored as 9 * value^2) from voxel v to the forbidden
\* voxels: (s * |v - u|)^2 * 9 with s = VoxDim3(aff) / 3
ScaledDistances(v) ==
    {VoxDim3(aff) * VoxDim3(aff) * SqDist(v, u) : u \in Forbidden}

\* C22: for a binary mask with a forbidden voxel, generate_distance_map gives
\* every free voxel v the value min(cutoff, s * d(v)): d(v) the Euclidean
\* distance in voxels from v to the nearest forbidden voxel, s the mean of
\* the absolute diagonal spacings, the clamp applied after the scaling.
C22_DistanceFieldValue ==
    (DistanceMapReturned /\ Forbidden # {}) =>
        \A v \in Vox \ Forbidden :
            /\ distance_map[v] <= Enc(cutoff)
            /\ \A w \in ScaledDistances(v) : distance_map[v] <= w
            /\ \/ distance_map[v] = Enc(cutoff)
               \/ distance_map[v] \in ScaledDistances(v)

\* a map of voxels that are not 1 mm wide, with a free voxel clamped to the
\* cutoff although it is no more than cutoff voxels away from a forbidden one,
\* and a free voxel below the cutoff that is not next to a forbidden one
C22_Witness ==
    /\ DistanceMapReturned
    /\ VoxDim3(aff) # 3
    /\ cutoff > 0
    /\ \E v \in Vox \ Forbidden :
          /\ distance_map[v] = Enc(cutoff)
          /\ \E u \in Forbidden : SqDist(v, u) <= cutoff * cutoff
    /\ \E v \in Vox \ Forbidden :
          /\ distance_map[v] < Enc(cutoff)
          /\ \A u \in Forbidden : SqDist(v, u) > 1

---------------------------------------------------------------------------
(* Claims on what the two filters return *)

\* the number of rows of s equal to x
Count(s, x) == Cardinality({i \in 1 .. Len(s) : s[i] = x})

\* the rows of the output of generate_margin_trajectories for target t,
\* without the margin
WithoutMargin(t) ==
    [i \in 1 .. Len(margin_trajectories[t]) |-> Insert3(margin_trajectories[t][i])]

\* C23: for every target the output of calculate_valid_lines is a
\* sub-collection of its input and the output of generate_margin_trajectories
\* (margins aside) is a sub-collection of its input: every returned row is an
\* input row with its direction, entry and terminal unchanged, and no row is
\* returned more often than it was given.
C23_FilteringOnlyRemoves ==
    /\ ValidReturned =>
          \A t \in 1 .. Len(valid_trajectories) :
              \A i \in 1 .. Len(valid_trajectories[t]) :
                  /\ Count(Paths[t], valid_trajectories[t][i]) >= 1
                  /\ Count(valid_trajectories[t], valid_trajectories[t][i])
                        <= Count(Paths[t], valid_trajectories[t][i])
    /\ MarginReturned =>
          \A t \in 1 .. Len(margin_trajectories) :
              \A i \in 1 .. Len(margin_trajectories[t]) :
                  /\ Count(valid_trajectories[t], WithoutMargin(t)[i]) >= 1
                  /\ Count(WithoutMargin(t), WithoutMargin(t)[i])
                        <= Count(valid_trajectories[t], WithoutMargin(t)[i])

---------------------------------------------------------------------------
(* Claims on the end of the walk *)

\* after k steps the position entry + k * direction lies more than one voxel
\* beyond the terminal on some axis, in the sense of the direction
BeyondTerminal(row, k) ==
    \E a \in 1 .. 3 :
        LET ahead == (row.terminal[a] - row.entry[a]) * Sign(row.direction.d[a])
        IN  /\ row.direction.d[a] # 0
            /\ \/ ahead + 1 < 0
               \/ k * k * row.direction.d[a] * row.direction.d[a]
                     > (ahead + 1) * (ahead + 1) * row.direction.s

\* ceil(sqrt(q))
CeilSqrt(q) == CHOOSE m \in 0 .. q : m * m >= q /\ (m = 0 \/ (m - 1) * (m - 1) < q)

\* C24: for every trajectory of calculate_all_lines with entry # target, no
\* position probed by the walk of calculate_valid_lines or of
\* generate_margin_trajectories lies more than one step beyond the terminal
\* on any axis, and the walk has at most ceil(|terminal - entry|) + 1 steps.
C24_WalkStopsAtTerminal ==
    ValidReturned =>
        \A t \in 1 .. Len(Paths) : \A i \in 1 .. Len(Paths[t]) :
            LET row == Paths[t][i]
            IN  Finite(row) =>
                    /\ \A k \in 1 .. Len(Stepped(row)) : ~BeyondTerminal(row, k)
                    /\ (row \in SeqRange(valid_trajectories[t]) /\ pc = "done") =>
                          \A k \in 1 .. Len(MarginWalk(row)) : ~BeyondTerminal(row, k)
                    /\ Len(Stepped(row)) <= CeilSqrt(SqDist(row.terminal, row.entry)) + 1

---------------------------------------------------------------------------
(* The while loop of calculate_valid_lines and of                          *)
(* generate_margin_trajectories, step by step, on a volume in which every  *)
(* probe can be indexed                                                    *)

\* the most steps a loop of the model is followed for
MaxSteps == 8

\* finite directions: the integer vectors in lowest terms, each over its
\* norm, and the zero vector
WalkDirections ==
    {[d |-> v, s |-> v[1] * v[1] + v[2] * v[2] + v[3] * v[3]] :
        v \in {w \in (-2 .. 2) \X (-1 .. 1) \X (-1 .. 1) :
                  Gcd(Gcd(w[1], w[2]), w[3]) = 1}}
        \cup {[d |-> ZeroVec, s |-> 1]}

\* integer terminal points, in and around the volume
WalkTerminals == (-1 .. Shape[1]) \X (-1 .. Shape[2]) \X {0}

\* the rows a loop is run on: any finite direction, any integer entry and
\* terminal
WalkRows == [direction : WalkDirections, entry : Vox, terminal : WalkTerminals]

InitWalk ==
    /\ pc = "while"
    /\ walk \in [stage : {"valid", "margin"}, row : WalkRows, k : {0},
                 path_ok : {TRUE}]
    /\ config_data = NoConfig
    /\ NoRun
    /\ entry_point_mask = NoMask
    /\ n_points = 0
    /\ entry_points_down = <<>>
    /\ mask = NoMask
    /\ aff = <<1, 1, 1>>
    /\ cutoff = 0
    /\ distance_map = NoMask
    /\ entry_points = <<>>
    /\ target_points = <<>>
    /\ all_trajectories = <<>>
    /\ valid_trajectories = <<>>
    /\ margin_trajectories = <<>>

\* the condition of the while loop of the stage, after walk.k steps
LoopCondition ==
    IF walk.stage = "valid" THEN WalkOn(walk.row, walk.k)
    ELSE MarginWalkOn(walk.row, walk.k)

\* one pass through the body of the loop: the step, the probe, and in
\* calculate_valid_lines the break on a collision (the value that is read is
\* any value the map may hold)
WhileBody ==
    /\ pc = "while"
    /\ walk.k < MaxSteps
    /\ LoopCondition
    /\ \E collision_bool \in IF walk.stage = "valid" THEN BOOLEAN ELSE {FALSE} :
          /\ walk' = [walk EXCEPT !.k = @ + 1, !.path_ok = ~collision_bool]
          /\ pc' = IF collision_bool THEN "after_while" ELSE "while"
    /\ UNCHANGED <<entry_point_mask, n_points, entry_points_down, mask, aff,
                   cutoff, distance_map, entry_points, target_points,
                   all_trajectories, valid_trajectories, margin_trajectories>>
    /\ UNCHANGED runvars
    /\ UNCHANGED config_data

\* the condition of the loop is False: the loop is left
WhileExit ==
    /\ pc = "while"
    /\ ~LoopCondition
    /\ pc' = "after_while"
    /\ UNCHANGED <<entry_point_mask, n_points, entry_points_down, mask, aff,
                   cutoff, distance_map, entry_points, target_points,
                   all_trajectories, valid_trajectories, margin_trajectories>>
    /\ UNCHANGED runvars
    /\ UNCHANGED <<walk, config_data>>

NextWalk ==
    \/ WhileBody
    \/ WhileExit

\* the interpreter goes on executing the loop
SpecWalk == InitWalk /\ [][NextWalk]_vars /\ WF_vars(NextWalk)

\* C25: for every trajectory with a finite direction and integer entry and
\* terminal points, the while loop of calculate_valid_lines and of
\* generate_margin_trajectories is left after finitely many steps.
C25_WalkTerminates == <>(pc = "after_while")

\* a loop left with no collision after three or more steps, on a row with a
\* zero component, a negative one and a positive one
C25_Witness ==
    /\ pc = "after_while"
    /\ walk.path_ok
    /\ walk.k >= 3
    /\ \E a, b, c \in 1 .. 3 :
          /\ walk.row.direction.d[a] = 0
          /\ walk.row.direction.d[b] < 0
          /\ walk.row.direction.d[c] > 0

---------------------------------------------------------------------------
(* Claims on the collision map *)

\* C26: for a binary mask, a positive voxel spacing and a positive cutoff
\* (generate_possible_paths leaves the cutoff at its default), the collision
\* map (distance_map == 0) is true at exactly the forbidden voxels of the
\* mask.
C26_CollisionMapIsMask ==
    (DistanceMapReturned /\ cutoff > 0) =>
        \A v \in Vox : CollisionMap(distance_map)[v] <=> (mask[v] = 1)

\* a map made from a mask with two or more forbidden voxels and two or more
\* free ones, one of them next to a forbidden voxel and one clamped
C26_Witness ==
    /\ DistanceMapReturned
    /\ cutoff > 0
    /\ Cardinality({v \in Vox : mask[v] = 1}) >= 2
    /\ Cardinality({v \in Vox : ~CollisionMap(distance_map)[v]}) >= 2
    /\ \E v \in Vox : \E u \in Vox :
          mask[v] = 0 /\ mask[u] = 1 /\ SqDist(u, v) = 1
    /\ \E v \in Vox : mask[v] = 0 /\ distance_map[v] = Enc(cutoff)

---------------------------------------------------------------------------
(* Claims on the two stages together *)

\* row i of target t in the output of calculate_valid_lines is a trajectory
\* of its input
Retained(t, i) == valid_trajectories[t][i] \in SeqRange(Paths[t])

\* C27: in generate_trajectories (margin 0.0, collision map derived from the
\* same distance map) every trajectory retained by calculate_valid_lines has
\* a margin above 0 in generate_margin_trajectories and is returned by it
\* with that margin; generate_margin_trajectories raises no error.
C27_StageConsistency ==
    /\ pc # "raised_margin"
    /\ MarginReturned =>
          \A t \in 1 .. Len(valid_trajectories) :
              \A i \in 1 .. Len(valid_trajectories[t]) :
                  Retained(t, i) =>
                      /\ RowMargin(t, i) > Enc(DefaultMargin)
                      /\ \E j \in 1 .. Len(margin_trajectories[t]) :
                            margin_trajectories[t][j]
                                = Insert4(valid_trajectories[t][i], RowMargin(t, i))

\* both stages ran; a trajectory of one target was removed by
\* calculate_valid_lines, and two of one target were retained, with
\* different margins
C27_Witness ==
    /\ MarginReturned
    /\ \E t \in 1 .. Len(Paths) : \E i \in 1 .. Len(Paths[t]) :
          Verdict(t, i) = "collision"
    /\ \E t \in 1 .. Len(valid_trajectories) :
          /\ \E i, j \in 1 .. Len(valid_trajectories[t]) :
                /\ Retained(t, i)
                /\ Retained(t, j)
                /\ RowMargin(t, i) < RowMargin(t, j)

---------------------------------------------------------------------------
(* Claims on the results per target *)

\* C28: in the outputs of calculate_valid_lines and of
\* generate_margin_trajectories the list at index t holds only trajectories
\* of input list t, and the placeholder zero row is in no result.
C28_PerTargetIsolation ==
    /\ ValidReturned =>
          \A t \in 1 .. Len(valid_trajectories) :
              \A i \in 1 .. Len(valid_trajectories[t]) :
                  /\ valid_trajectories[t][i] # ZeroRow
                  /\ valid_trajectories[t][i] \in SeqRange(Paths[t])
    /\ MarginReturned =>
          \A t \in 1 .. Len(margin_trajectories) :
              \A i \in 1 .. Len(margin_trajectories[t]) :
                  /\ margin_trajectories[t][i] # ZeroRow4
                  /\ Insert3(margin_trajectories[t][i]) \in SeqRange(Paths[t])

---------------------------------------------------------------------------
(* Claims on the coverage of the sampler *)

\* the raw indices generate_entry_points takes its sample at
SampledIndices ==
    {IndexIn(RawPoints, entry_points_down[i]) - 1 : i \in 1 .. Len(entry_points_down)}

\* C29: when rawCount >= n, every raw index is less than one stride
\* s = floor(rawCount / n) above the nearest sampled index at or below it,
\* and the last sampled index (n-1)*s is at least rawCount - s.
C29_SamplerCoverage ==
    (pc = "sampled" /\ n_points >= 1 /\ RawCount >= n_points) =>
        /\ \A idx \in 0 .. RawCount - 1 :
              \E j \in SampledIndices :
                  j <= idx /\ idx - j < RawCount \div n_points
        /\ \A j \in SampledIndices :
              (\A h \in SampledIndices : h <= j) =>
                  j >= RawCount - RawCount \div n_points

---------------------------------------------------------------------------
(* main: initialization, the four modules before path planning, and the    *)
(* wrapper path_planning                                                   *)

\* the values of "runModules" in config.json, when the key is there: a list
\* of five flags, or a list of four flags
ConfigRunModules == [1 .. 5 -> {0, 1, 2}] \cup [1 .. 4 -> {0, 1}]

\* config.json: whether "runModules" is defined and its value, and whether
\* "usedScans" is defined
Configs ==
    [hasRunModules : {TRUE}, runModules : ConfigRunModules, usedScans : BOOLEAN]
        \cup [hasRunModules : {FALSE}, runModules : {<<>>}, usedScans : BOOLEAN]

\* extract_settings: settings["runModules"] = [1, 1, 1, 1] when the key is
\* not in the configuration
ExtractRunModules(config) ==
    IF config.hasRunModules THEN config.runModules ELSE <<1, 1, 1, 1>>

\* settings["runModules"] has the index (counted from 0, as in the code);
\* the lookup raises IndexError when it has not
HasRunFlag(index) == index + 1 <= Len(settings.runModules)

\* settings["runModules"][index]
RunFlag(index) == settings.runModules[index + 1]

\* the paths generate_planning_paths adds to paths["pathplanning_paths"]
RegisteredPaths ==
    [s \in Subjects |->
        [CT_shape |-> Shape, final_mask |-> RunMask,
         aff_mask_combined |-> <<-6, 6, 6>>, entry_point_mask |-> NoMask,
         aff_entry_point_mask |-> <<-6, 6, 6>>]]

InitMain ==
    /\ pc = "initialization"
    /\ config_data \in Configs
    /\ settings = <<>>
    /\ planning_paths = <<>>
    /\ disk = <<>>
    /\ loop = [run |-> 0, sub |-> 0, skipped_img |-> FALSE, called |-> <<>>,
               processed |-> <<>>]
    /\ walk = NoWalk
    /\ entry_point_mask = NoMask
    /\ n_points = 0
    /\ entry_points_down = <<>>
    /\ mask = NoMask
    /\ aff = <<1, 1, 1>>
    /\ cutoff = 0
    /\ distance_map = NoMask
    /\ entry_points = <<>>
    /\ target_points = <<>>
    /\ all_trajectories = <<>>
    /\ valid_trajectories = <<>>
    /\ margin_trajectories = <<>>

\* initialization: extract_settings raises UserWarning when usedScans is not
\* defined; the checks of the paths and of the system may fail
Initialization ==
    /\ pc = "initialization"
    /\ IF ~config_data.usedScans
       THEN /\ pc' = "UserWarning"
            /\ UNCHANGED settings
       ELSE \E success \in BOOLEAN :
               /\ settings' = [runModules |-> ExtractRunModules(config_data)]
               /\ pc' = IF success THEN "preprocessing" ELSE "UserWarning"
    /\ UNCHANGED <<planning_paths, disk, loop, walk, config_data>>
    /\ UNCHANGED callvars

\* the wrapper of one of the modules 1 to 4, where pc goes: the module is
\* skipped on flag 0, run on flag 1 (it may raise), and any other flag is a
\* ValueError
WrapperOutcome(index, next, success) ==
    IF ~HasRunFlag(index) THEN "IndexError"
    ELSE IF RunFlag(index) = 0 THEN next
    ELSE IF RunFlag(index) = 1 THEN (IF success THEN next ELSE "raised")
    ELSE "ValueError"

\* preprocessing: settings["runModules"][0]
Preprocessing ==
    /\ pc = "preprocessing"
    /\ \E success \in BOOLEAN :
          pc' = WrapperOutcome(0, "registration_mri", success)
    /\ UNCHANGED <<runvars, walk, config_data>>
    /\ UNCHANGED callvars

\* registration_mri: settings["runModules"][1]
RegistrationMri ==
    /\ pc = "registration_mri"
    /\ \E success \in BOOLEAN :
          pc' = WrapperOutcome(1, "segmentation", success)
    /\ UNCHANGED <<runvars, walk, config_data>>
    /\ UNCHANGED callvars

\* segmentation: settings["runModules"][1]
Segmentation ==
    /\ pc = "segmentation"
    /\ \E success \in BOOLEAN :
          pc' = WrapperOutcome(1, "registration_ct", success)
    /\ UNCHANGED <<runvars, walk, config_data>>
    /\ UNCHANGED callvars

\* registration_ct: settings["runModules"][3]
RegistrationCt ==
    /\ pc = "registration_ct"
    /\ \E success \in BOOLEAN :
          pc' = WrapperOutcome(3, "path_planning", success)
    /\ UNCHANGED <<runvars, walk, config_data>>
    /\ UNCHANGED callvars

\* the wrapper path_planning: settings["runModules"][4]
PathPlanning ==
    /\ pc = "path_planning"
    /\ IF ~HasRunFlag(4)
       THEN /\ pc' = "path_planning_IndexError"
            /\ UNCHANGED <<planning_paths, loop>>
       ELSE IF RunFlag(4) = 0
       THEN /\ planning_paths' = RegisteredPaths
            /\ pc' = "path_planning_returned"
            /\ UNCHANGED loop
       ELSE IF RunFlag(4) = 1
       THEN \E success \in BOOLEAN :
               /\ planning_paths' = RegisteredPaths
               /\ loop' = [loop EXCEPT !.run = 1]
               /\ pc' = IF success THEN "path_planning_returned" ELSE "raised"
       ELSE /\ pc' = "path_planning_ValueError"
            /\ UNCHANGED <<planning_paths, loop>>
    /\ UNCHANGED <<settings, disk, walk, config_data>>
    /\ UNCHANGED callvars

NextMain ==
    \/ Initialization
    \/ Preprocessing
    \/ RegistrationMri
    \/ Segmentation
    \/ RegistrationCt
    \/ PathPlanning

SpecMain == InitMain /\ [][NextMain]_vars

\* C30: for every configuration extract_settings accepts, the one without
\* runModules included, path_planning finds a value at
\* settings["runModules"][4]: it never raises IndexError on the lookup; when
\* it returns it has run (flag 1) or has skipped and registered the planning
\* paths (flag 0), and it raises ValueError only on another flag.
C30_RunFlagDefined ==
    /\ pc # "path_planning_IndexError"
    /\ pc = "path_planning_returned" =>
          /\ HasRunFlag(4)
          /\ planning_paths = RegisteredPaths
          /\ \/ RunFlag(4) = 1 /\ loop.run = 1
             \/ RunFlag(4) = 0 /\ loop.run = 0
    /\ pc = "path_planning_ValueError" =>
          HasRunFlag(4) /\ RunFlag(4) \notin {0, 1}

=============================================================================
